---- MODULE Spec2Model ----
(***************************************************************************)
(* Model of the 6502 core in include/cpu6502.h: struct cpu6502, the two    *)
(* opcode tables instruction_modes_6502 and instruction_types_6502, and    *)
(* the two operations cpu6502_reset and cpu6502_step.                      *)
(*                                                                         *)
(* Spec      drives one struct cpu6502, starting from arbitrary contents   *)
(*           (C gives the structure no constructor), through any sequence  *)
(*           of cpu6502_reset and cpu6502_step calls.                      *)
(* TableSpec looks every opcode byte up in the two tables.                 *)
(***************************************************************************)
EXTENDS Integers, Sequences, FiniteSets

VARIABLES cpu, pre, call, ret, was_reset, nsteps, decoded

vars == <<cpu, pre, call, ret, was_reset, nsteps, decoded>>

(* Constants (cpu6502.h, "Constants") *)
RAM_SIZE == 2 * 1024 * 1024
PAGE_SIZE == 256
NMI_VECTOR == 65530
IRQ_VECTOR == 65534
RESET_VECTOR == 65532

(* enum addressing_modes_6502 and enum instr_types_6502, with the
   enumerator values the header assigns *)
ADDR_MODE_ACCUMULATOR == 0
ADDR_MODE_ABSOLUTE == 1
ADDR_MODE_ABSOLUTE_X == 3
ADDR_MODE_ABSOLUTE_Y == 4
ADDR_MODE_IMMEDIATE == 5
ADDR_MODE_IMPLIED == 6
ADDR_MODE_INDIRECT == 7
ADDR_MODE_INDIRECT_X == 8
ADDR_MODE_INDIRECT_Y == 9
ADDR_MODE_RELATIVE == 10
ADDR_MODE_ZERO_PAGE == 11
ADDR_MODE_ZERO_PAGE_X == 12
ADDR_MODE_ZERO_PAGE_Y == 13
ADDR_MODE_NONE == 14
INSTR_TYPE_LDA == 0
INSTR_TYPE_LDX == 1
INSTR_TYPE_LDY == 2
INSTR_TYPE_STA == 3
INSTR_TYPE_STX == 4
INSTR_TYPE_STY == 5
INSTR_TYPE_TAX == 6
INSTR_TYPE_TAY == 7
INSTR_TYPE_TXA == 8
INSTR_TYPE_TYA == 9
INSTR_TYPE_TSX == 10
INSTR_TYPE_TXS == 12
INSTR_TYPE_PHA == 13
INSTR_TYPE_PHP == 14
INSTR_TYPE_PLA == 15
INSTR_TYPE_PLP == 16
INSTR_TYPE_AND == 17
INSTR_TYPE_EOR == 18
INSTR_TYPE_ORA == 19
INSTR_TYPE_BIT == 20
INSTR_TYPE_ADC == 21
INSTR_TYPE_SBC == 22
INSTR_TYPE_CMP == 23
INSTR_TYPE_CPX == 24
INSTR_TYPE_CPY == 25
INSTR_TYPE_INC == 26
INSTR_TYPE_INX == 27
INSTR_TYPE_INY == 28
INSTR_TYPE_DEC == 29
INSTR_TYPE_DEX == 30
INSTR_TYPE_DEY == 31
INSTR_TYPE_ASL == 32
INSTR_TYPE_LSR == 33
INSTR_TYPE_ROL == 34
INSTR_TYPE_ROR == 35
INSTR_TYPE_JMP == 36
INSTR_TYPE_JSR == 37
INSTR_TYPE_RTS == 38
INSTR_TYPE_BCC == 39
INSTR_TYPE_BCS == 40
INSTR_TYPE_BEQ == 41
INSTR_TYPE_BMI == 42
INSTR_TYPE_BNE == 43
INSTR_TYPE_BPL == 44
INSTR_TYPE_BVC == 45
INSTR_TYPE_BVS == 46
INSTR_TYPE_CLC == 47
INSTR_TYPE_CLD == 48
INSTR_TYPE_CLI == 49
INSTR_TYPE_CLV == 50
INSTR_TYPE_SEC == 51
INSTR_TYPE_SED == 52
INSTR_TYPE_SEI == 53
INSTR_TYPE_BRK == 54
INSTR_TYPE_NOP == 55
INSTR_TYPE_RTI == 56
INSTR_TYPE_NONE == 47

(* Initializer of instruction_modes_6502[256], opcode 0x00 first, sixteen opcodes per row *)
instruction_modes_6502_init ==
  <<
     ADDR_MODE_IMPLIED, ADDR_MODE_INDIRECT_X, ADDR_MODE_NONE, ADDR_MODE_NONE, ADDR_MODE_NONE, ADDR_MODE_ZERO_PAGE, ADDR_MODE_ZERO_PAGE, ADDR_MODE_NONE, ADDR_MODE_IMPLIED, ADDR_MODE_IMMEDIATE, ADDR_MODE_ACCUMULATOR, ADDR_MODE_NONE, ADDR_MODE_NONE, ADDR_MODE_ABSOLUTE, ADDR_MODE_ABSOLUTE, ADDR_MODE_NONE,
     ADDR_MODE_RELATIVE, ADDR_MODE_INDIRECT_Y, ADDR_MODE_NONE, ADDR_MODE_NONE, ADDR_MODE_NONE, ADDR_MODE_ZERO_PAGE_X, ADDR_MODE_ZERO_PAGE_X, ADDR_MODE_NONE, ADDR_MODE_IMPLIED, ADDR_MODE_ABSOLUTE_Y, ADDR_MODE_NONE, ADDR_MODE_NONE, ADDR_MODE_NONE, ADDR_MODE_ABSOLUTE_X, ADDR_MODE_ABSOLUTE_X, ADDR_MODE_NONE,
     ADDR_MODE_ABSOLUTE, ADDR_MODE_INDIRECT_X, ADDR_MODE_NONE, ADDR_MODE_NONE, ADDR_MODE_ZERO_PAGE, ADDR_MODE_ZERO_PAGE, ADDR_MODE_ZERO_PAGE, ADDR_MODE_NONE, ADDR_MODE_IMPLIED, ADDR_MODE_IMMEDIATE, ADDR_MODE_ACCUMULATOR, ADDR_MODE_NONE, ADDR_MODE_ABSOLUTE, ADDR_MODE_ABSOLUTE, ADDR_MODE_ABSOLUTE, ADDR_MODE_NONE,
     ADDR_MODE_RELATIVE, ADDR_MODE_INDIRECT_Y, ADDR_MODE_NONE, ADDR_MODE_NONE, ADDR_MODE_NONE, ADDR_MODE_ZERO_PAGE_X, ADDR_MODE_ZERO_PAGE_X, ADDR_MODE_NONE, ADDR_MODE_IMPLIED, ADDR_MODE_ABSOLUTE_Y, ADDR_MODE_NONE, ADDR_MODE_NONE, ADDR_MODE_NONE, ADDR_MODE_ABSOLUTE_X, ADDR_MODE_ABSOLUTE_X, ADDR_MODE_NONE,
     ADDR_MODE_IMPLIED, ADDR_MODE_INDIRECT_X, ADDR_MODE_NONE, ADDR_MODE_NONE, ADDR_MODE_NONE, ADDR_MODE_ZERO_PAGE, ADDR_MODE_ZERO_PAGE, ADDR_MODE_NONE, ADDR_MODE_IMPLIED, ADDR_MODE_IMMEDIATE, ADDR_MODE_ACCUMULATOR, ADDR_MODE_NONE, ADDR_MODE_ABSOLUTE, ADDR_MODE_ABSOLUTE, ADDR_MODE_ABSOLUTE, ADDR_MODE_NONE,
     ADDR_MODE_RELATIVE, ADDR_MODE_INDIRECT_Y, ADDR_MODE_NONE, ADDR_MODE_NONE, ADDR_MODE_NONE, ADDR_MODE_ZERO_PAGE_X, ADDR_MODE_ZERO_PAGE_X, ADDR_MODE_NONE, ADDR_MODE_IMPLIED, ADDR_MODE_ABSOLUTE_Y, ADDR_MODE_NONE, ADDR_MODE_NONE, ADDR_MODE_NONE, ADDR_MODE_ABSOLUTE_X, ADDR_MODE_ABSOLUTE_X, ADDR_MODE_NONE,
     ADDR_MODE_IMPLIED, ADDR_MODE_INDIRECT_X, ADDR_MODE_NONE, ADDR_MODE_NONE, ADDR_MODE_NONE, ADDR_MODE_ZERO_PAGE, ADDR_MODE_ZERO_PAGE, ADDR_MODE_NONE, ADDR_MODE_IMPLIED, ADDR_MODE_IMMEDIATE, ADDR_MODE_ACCUMULATOR, ADDR_MODE_NONE, ADDR_MODE_INDIRECT, ADDR_MODE_ABSOLUTE, ADDR_MODE_ABSOLUTE, ADDR_MODE_NONE,
     ADDR_MODE_RELATIVE, ADDR_MODE_INDIRECT_Y, ADDR_MODE_NONE, ADDR_MODE_NONE, ADDR_MODE_NONE, ADDR_MODE_ZERO_PAGE_X, ADDR_MODE_ZERO_PAGE_X, ADDR_MODE_NONE, ADDR_MODE_IMPLIED, ADDR_MODE_ABSOLUTE_Y, ADDR_MODE_NONE, ADDR_MODE_NONE, ADDR_MODE_NONE, ADDR_MODE_ABSOLUTE_X, ADDR_MODE_ABSOLUTE_X, ADDR_MODE_NONE,
     ADDR_MODE_NONE, ADDR_MODE_INDIRECT_X, ADDR_MODE_NONE, ADDR_MODE_NONE, ADDR_MODE_ZERO_PAGE, ADDR_MODE_ZERO_PAGE, ADDR_MODE_ZERO_PAGE, ADDR_MODE_NONE, ADDR_MODE_IMPLIED, ADDR_MODE_NONE, ADDR_MODE_IMPLIED, ADDR_MODE_NONE, ADDR_MODE_ABSOLUTE, ADDR_MODE_ABSOLUTE, ADDR_MODE_ABSOLUTE, ADDR_MODE_NONE,
     ADDR_MODE_RELATIVE, ADDR_MODE_INDIRECT_Y, ADDR_MODE_NONE, ADDR_MODE_NONE, ADDR_MODE_ZERO_PAGE_X, ADDR_MODE_ZERO_PAGE_X, ADDR_MODE_ZERO_PAGE_Y, ADDR_MODE_NONE, ADDR_MODE_IMPLIED, ADDR_MODE_ABSOLUTE_Y, ADDR_MODE_IMPLIED, ADDR_MODE_NONE, ADDR_MODE_NONE, ADDR_MODE_ABSOLUTE_X, ADDR_MODE_NONE, ADDR_MODE_NONE,
     ADDR_MODE_IMMEDIATE, ADDR_MODE_INDIRECT_X, ADDR_MODE_IMMEDIATE, ADDR_MODE_NONE, ADDR_MODE_ZERO_PAGE, ADDR_MODE_ZERO_PAGE, ADDR_MODE_ZERO_PAGE, ADDR_MODE_NONE, ADDR_MODE_IMPLIED, ADDR_MODE_IMMEDIATE, ADDR_MODE_IMPLIED, ADDR_MODE_NONE, ADDR_MODE_ABSOLUTE, ADDR_MODE_ABSOLUTE, ADDR_MODE_ABSOLUTE, ADDR_MODE_NONE,
     ADDR_MODE_RELATIVE, ADDR_MODE_INDIRECT_Y, ADDR_MODE_NONE, ADDR_MODE_NONE, ADDR_MODE_ZERO_PAGE_X, ADDR_MODE_ZERO_PAGE_X, ADDR_MODE_ZERO_PAGE_Y, ADDR_MODE_NONE, ADDR_MODE_IMPLIED, ADDR_MODE_ABSOLUTE_Y, ADDR_MODE_IMPLIED, ADDR_MODE_NONE, ADDR_MODE_ABSOLUTE_X, ADDR_MODE_ABSOLUTE_X, ADDR_MODE_ABSOLUTE_Y, ADDR_MODE_NONE,
     ADDR_MODE_IMMEDIATE, ADDR_MODE_INDIRECT_X, ADDR_MODE_NONE, ADDR_MODE_NONE, ADDR_MODE_ZERO_PAGE, ADDR_MODE_ZERO_PAGE, ADDR_MODE_ZERO_PAGE, ADDR_MODE_NONE, ADDR_MODE_IMPLIED, ADDR_MODE_IMMEDIATE, ADDR_MODE_IMPLIED, ADDR_MODE_NONE, ADDR_MODE_ABSOLUTE, ADDR_MODE_ABSOLUTE, ADDR_MODE_ABSOLUTE, ADDR_MODE_NONE,
     ADDR_MODE_RELATIVE, ADDR_MODE_INDIRECT_Y, ADDR_MODE_NONE, ADDR_MODE_NONE, ADDR_MODE_NONE, ADDR_MODE_ZERO_PAGE_X, ADDR_MODE_ZERO_PAGE_Y, ADDR_MODE_NONE, ADDR_MODE_IMPLIED, ADDR_MODE_ABSOLUTE_Y, ADDR_MODE_NONE, ADDR_MODE_NONE, ADDR_MODE_NONE, ADDR_MODE_ABSOLUTE_X, ADDR_MODE_ABSOLUTE_X, ADDR_MODE_NONE,
     ADDR_MODE_IMMEDIATE, ADDR_MODE_INDIRECT_X, ADDR_MODE_NONE, ADDR_MODE_NONE, ADDR_MODE_ZERO_PAGE, ADDR_MODE_ZERO_PAGE, ADDR_MODE_ZERO_PAGE, ADDR_MODE_NONE, ADDR_MODE_IMPLIED, ADDR_MODE_IMMEDIATE, ADDR_MODE_IMPLIED, ADDR_MODE_NONE, ADDR_MODE_ABSOLUTE, ADDR_MODE_ABSOLUTE, ADDR_MODE_ABSOLUTE, ADDR_MODE_NONE,
     ADDR_MODE_RELATIVE, ADDR_MODE_INDIRECT_Y, ADDR_MODE_NONE, ADDR_MODE_NONE, ADDR_MODE_NONE, ADDR_MODE_ZERO_PAGE_X, ADDR_MODE_ZERO_PAGE_X, ADDR_MODE_NONE, ADDR_MODE_IMPLIED, ADDR_MODE_ABSOLUTE_Y, ADDR_MODE_NONE, ADDR_MODE_NONE, ADDR_MODE_NONE, ADDR_MODE_ABSOLUTE_X, ADDR_MODE_ABSOLUTE_X, ADDR_MODE_NONE
  >>

(* Initializer of instruction_types_6502[256], opcode 0x00 first, sixteen opcodes per row *)
instruction_types_6502_init ==
  <<
     INSTR_TYPE_BRK, INSTR_TYPE_ORA, INSTR_TYPE_NONE, INSTR_TYPE_NONE, INSTR_TYPE_NONE, INSTR_TYPE_ORA, INSTR_TYPE_ASL, INSTR_TYPE_NONE, INSTR_TYPE_PHP, INSTR_TYPE_ORA, INSTR_TYPE_ASL, INSTR_TYPE_NONE, INSTR_TYPE_NONE, INSTR_TYPE_ORA, INSTR_TYPE_ASL, INSTR_TYPE_NONE,
     INSTR_TYPE_BPL, INSTR_TYPE_ORA, INSTR_TYPE_NONE, INSTR_TYPE_NONE, INSTR_TYPE_NONE, INSTR_TYPE_ORA, INSTR_TYPE_ASL, INSTR_TYPE_NONE, INSTR_TYPE_CLC, INSTR_TYPE_ORA, INSTR_TYPE_NONE, INSTR_TYPE_NONE, INSTR_TYPE_NONE, INSTR_TYPE_ORA, INSTR_TYPE_ASL, INSTR_TYPE_NONE,
     INSTR_TYPE_JSR, INSTR_TYPE_AND, INSTR_TYPE_NONE, INSTR_TYPE_NONE, INSTR_TYPE_BIT, INSTR_TYPE_AND, INSTR_TYPE_ROL, INSTR_TYPE_NONE, INSTR_TYPE_PLP, INSTR_TYPE_AND, INSTR_TYPE_ROL, INSTR_TYPE_NONE, INSTR_TYPE_BIT, INSTR_TYPE_AND, INSTR_TYPE_ROL, INSTR_TYPE_NONE,
     INSTR_TYPE_BMI, INSTR_TYPE_AND, INSTR_TYPE_NONE, INSTR_TYPE_NONE, INSTR_TYPE_NONE, INSTR_TYPE_AND, INSTR_TYPE_ROL, INSTR_TYPE_NONE, INSTR_TYPE_SEC, INSTR_TYPE_AND, INSTR_TYPE_NONE, INSTR_TYPE_NONE, INSTR_TYPE_NONE, INSTR_TYPE_AND, INSTR_TYPE_ROL, INSTR_TYPE_NONE,
     INSTR_TYPE_RTI, INSTR_TYPE_EOR, INSTR_TYPE_NONE, INSTR_TYPE_NONE, INSTR_TYPE_NONE, INSTR_TYPE_EOR, INSTR_TYPE_LSR, INSTR_TYPE_NONE, INSTR_TYPE_PHA, INSTR_TYPE_EOR, INSTR_TYPE_LSR, INSTR_TYPE_NONE, INSTR_TYPE_JMP, INSTR_TYPE_EOR, INSTR_TYPE_LSR, INSTR_TYPE_NONE,
     INSTR_TYPE_BVC, INSTR_TYPE_EOR, INSTR_TYPE_NONE, INSTR_TYPE_NONE, INSTR_TYPE_NONE, INSTR_TYPE_EOR, INSTR_TYPE_LSR, INSTR_TYPE_NONE, INSTR_TYPE_CLI, INSTR_TYPE_EOR, INSTR_TYPE_NONE, INSTR_TYPE_NONE, INSTR_TYPE_NONE, INSTR_TYPE_EOR, INSTR_TYPE_LSR, INSTR_TYPE_NONE,
     INSTR_TYPE_RTS, INSTR_TYPE_ADC, INSTR_TYPE_NONE, INSTR_TYPE_NONE, INSTR_TYPE_NONE, INSTR_TYPE_ADC, INSTR_TYPE_ROR, INSTR_TYPE_NONE, INSTR_TYPE_PLA, INSTR_TYPE_ADC, INSTR_TYPE_ROR, INSTR_TYPE_NONE, INSTR_TYPE_JMP, INSTR_TYPE_ADC, INSTR_TYPE_ROR, INSTR_TYPE_NONE,
     INSTR_TYPE_BVS, INSTR_TYPE_ADC, INSTR_TYPE_NONE, INSTR_TYPE_NONE, INSTR_TYPE_NONE, INSTR_TYPE_ADC, INSTR_TYPE_ROR, INSTR_TYPE_NONE, INSTR_TYPE_SEI, INSTR_TYPE_ADC, INSTR_TYPE_NONE, INSTR_TYPE_NONE, INSTR_TYPE_NONE, INSTR_TYPE_ADC, INSTR_TYPE_ROR, INSTR_TYPE_NONE,
     INSTR_TYPE_NONE, INSTR_TYPE_STA, INSTR_TYPE_NONE, INSTR_TYPE_NONE, INSTR_TYPE_STY, INSTR_TYPE_STA, INSTR_TYPE_STX, INSTR_TYPE_NONE, INSTR_TYPE_DEY, INSTR_TYPE_NONE, INSTR_TYPE_TXA, INSTR_TYPE_NONE, INSTR_TYPE_STY, INSTR_TYPE_STA, INSTR_TYPE_STX, INSTR_TYPE_NONE,
     INSTR_TYPE_BCC, INSTR_TYPE_STA, INSTR_TYPE_NONE, INSTR_TYPE_NONE, INSTR_TYPE_STY, INSTR_TYPE_STA, INSTR_TYPE_STX, INSTR_TYPE_NONE, INSTR_TYPE_TYA, INSTR_TYPE_STA, INSTR_TYPE_TXS, INSTR_TYPE_NONE, INSTR_TYPE_NONE, INSTR_TYPE_STA, INSTR_TYPE_NONE, INSTR_TYPE_NONE,
     INSTR_TYPE_LDY, INSTR_TYPE_LDA, INSTR_TYPE_LDX, INSTR_TYPE_NONE, INSTR_TYPE_LDY, INSTR_TYPE_LDA, INSTR_TYPE_LDX, INSTR_TYPE_NONE, INSTR_TYPE_TAY, INSTR_TYPE_LDA, INSTR_TYPE_TAX, INSTR_TYPE_NONE, INSTR_TYPE_LDY, INSTR_TYPE_LDA, INSTR_TYPE_LDX, INSTR_TYPE_NONE,
     INSTR_TYPE_BCS, INSTR_TYPE_LDA, INSTR_TYPE_NONE, INSTR_TYPE_NONE, INSTR_TYPE_LDY, INSTR_TYPE_LDA, INSTR_TYPE_LDX, INSTR_TYPE_NONE, INSTR_TYPE_CLV, INSTR_TYPE_LDA, INSTR_TYPE_TSX, INSTR_TYPE_NONE, INSTR_TYPE_LDY, INSTR_TYPE_LDA, INSTR_TYPE_LDX, INSTR_TYPE_NONE,
     INSTR_TYPE_CPY, INSTR_TYPE_CMP, INSTR_TYPE_NONE, INSTR_TYPE_NONE, INSTR_TYPE_CPY, INSTR_TYPE_CMP, INSTR_TYPE_DEC, INSTR_TYPE_NONE, INSTR_TYPE_INY, INSTR_TYPE_CMP, INSTR_TYPE_DEX, INSTR_TYPE_NONE, INSTR_TYPE_CPY, INSTR_TYPE_CMP, INSTR_TYPE_DEC, INSTR_TYPE_NONE,
     INSTR_TYPE_BNE, INSTR_TYPE_CMP, INSTR_TYPE_NONE, INSTR_TYPE_NONE, INSTR_TYPE_NONE, INSTR_TYPE_CMP, INSTR_TYPE_DEC, INSTR_TYPE_NONE, INSTR_TYPE_CLD, INSTR_TYPE_CMP, INSTR_TYPE_NONE, INSTR_TYPE_NONE, INSTR_TYPE_NONE, INSTR_TYPE_CMP, INSTR_TYPE_DEC, INSTR_TYPE_NONE,
     INSTR_TYPE_CPX, INSTR_TYPE_SBC, INSTR_TYPE_NONE, INSTR_TYPE_NONE, INSTR_TYPE_CPX, INSTR_TYPE_SBC, INSTR_TYPE_INC, INSTR_TYPE_NONE, INSTR_TYPE_INX, INSTR_TYPE_SBC, INSTR_TYPE_NOP, INSTR_TYPE_NONE, INSTR_TYPE_CPX, INSTR_TYPE_SBC, INSTR_TYPE_INC, INSTR_TYPE_NONE,
     INSTR_TYPE_BEQ, INSTR_TYPE_SBC, INSTR_TYPE_NONE, INSTR_TYPE_NONE, INSTR_TYPE_NONE, INSTR_TYPE_SBC, INSTR_TYPE_INC, INSTR_TYPE_NONE, INSTR_TYPE_SED, INSTR_TYPE_SBC, INSTR_TYPE_NONE, INSTR_TYPE_NONE, INSTR_TYPE_NONE, INSTR_TYPE_SBC, INSTR_TYPE_INC, INSTR_TYPE_NONE
  >>

(* The tables as the C arrays: indexed by the opcode byte 0..255 *)
(* Variant: the row of 0x6d (ADC absolute) carries the addressing mode of   *)
(* its neighbour 0x6c                                                      *)
instruction_modes_6502_row6d ==
  [op \in 0..255 |->
     IF op = 109 THEN ADDR_MODE_INDIRECT ELSE instruction_modes_6502_init[op + 1]]

instruction_modes_6502 ==
  [op \in 0..255 |-> instruction_modes_6502_init[op + 1]]

instruction_types_6502 ==
  [op \in 0..255 |-> instruction_types_6502_init[op + 1]]

(***************************************************************************)
(* Integer types                                                           *)
(***************************************************************************)
Byte == 0..255

(* Conversion to uint16_t on assignment to cpu->pc *)
uint16(v) == v % 65536

(* v << n on an int-promoted operand *)
ShiftLeft(v, n) == v * (2 ^ n)

(* a | b, bit by bit *)
RECURSIVE BitOr(_, _)
BitOr(a, b) ==
  IF a = 0 THEN b
  ELSE IF b = 0 THEN a
  ELSE (IF a % 2 = 1 \/ b % 2 = 1 THEN 1 ELSE 0) + 2 * BitOr(a \div 2, b \div 2)

(* size_t is 64 bits wide.  A value is kept as four 16-bit limbs, most     *)
(* significant first, so that the full width is represented exactly.       *)
size_t(n) == <<0, 0, 0, n>>

SIZE_MAX == <<65535, 65535, 65535, 65535>>

(* v-- on a size_t: borrow runs from the least significant limb upwards,   *)
(* and 0 wraps around to SIZE_MAX                                          *)
RECURSIVE Borrow(_, _)
Borrow(v, i) ==
  IF i = 0 THEN v
  ELSE IF v[i] > 0 THEN [v EXCEPT ![i] = @ - 1]
  ELSE Borrow([v EXCEPT ![i] = 65535], i - 1)

SizeDec(v) == Borrow(v, Len(v))

(* v > 0 on a size_t *)
SizeGtZero(v) == \E i \in 1..Len(v) : v[i] > 0

(***************************************************************************)
(* The status register: union of uint8_t status and the bit-field struct   *)
(* flags, first member in the least significant bit                        *)
(***************************************************************************)
FLAG_C == 0
FLAG_Z == 1
FLAG_I == 2
FLAG_D == 3
FLAG_B == 4
FLAG_U == 5
FLAG_V == 6
FLAG_N == 7

(* Reading cpu->flags.<f> *)
Flag(status, f) == (status \div (2 ^ f)) % 2

(* cpu->flags.<f> = b: the other seven bits of the byte are kept *)
SetFlag(status, f, b) == status - Flag(status, f) * (2 ^ f) + b * (2 ^ f)

(***************************************************************************)
(* cpu6502_reset                                                           *)
(***************************************************************************)
(* cpu->ram[RESET_VECTOR] | (cpu->ram[RESET_VECTOR+1] << 8) *)
(* Variant: the two vector bytes read in big-endian order *)
ResetTarget_bigendian(ram) ==
  BitOr(ram[RESET_VECTOR + 1], ShiftLeft(ram[RESET_VECTOR], 8))

ResetTarget(ram) ==
  BitOr(ram[RESET_VECTOR], ShiftLeft(ram[RESET_VECTOR + 1], 8))

(* The six flag assignments of cpu6502_reset, in program order *)
(* Variant: the assignment flags.z = 1 is missing *)
ResetFlags_noz(status) ==
  LET s1 == SetFlag(status, FLAG_I, 1)
      s2 == SetFlag(s1, FLAG_D, 0)
      s4 == SetFlag(s2, FLAG_N, 0)
      s5 == SetFlag(s4, FLAG_V, 0)
  IN  SetFlag(s5, FLAG_C, 0)

ResetFlags(status) ==
  LET s1 == SetFlag(status, FLAG_I, 1)
      s2 == SetFlag(s1, FLAG_D, 0)
      s3 == SetFlag(s2, FLAG_Z, 1)
      s4 == SetFlag(s3, FLAG_N, 0)
      s5 == SetFlag(s4, FLAG_V, 0)
  IN  SetFlag(s5, FLAG_C, 0)

(* Variant: reset pushes the high byte of the old program counter, as an   *)
(* interrupt sequence would                                                *)
cpu6502_reset_push(c) ==
  [c EXCEPT !.cycles_behind = size_t(6),
            !.ram_size = RAM_SIZE,
            !.status = ResetFlags(c.status),
            !.pc = uint16(ResetTarget(c.ram)),
            !.ram = [@ EXCEPT ![PAGE_SIZE + c.sp] = c.pc \div 256],
            !.sp = 255,
            !.a = 0,
            !.x = 0,
            !.y = 0]

(* Variant: reset charged with the seven cycles of an interrupt sequence *)
cpu6502_reset_seven(c) ==
  [c EXCEPT !.cycles_behind = size_t(7),
            !.ram_size = RAM_SIZE,
            !.status = ResetFlags(c.status),
            !.pc = uint16(ResetTarget(c.ram)),
            !.sp = 255,
            !.a = 0,
            !.x = 0,
            !.y = 0]

cpu6502_reset(c) ==
  [c EXCEPT !.cycles_behind = size_t(6),
            !.ram_size = RAM_SIZE,
            !.status = ResetFlags(c.status),
            !.pc = uint16(ResetTarget(c.ram)),
            !.sp = 255,
            !.a = 0,
            !.x = 0,
            !.y = 0]

(***************************************************************************)
(* cpu6502_step                                                            *)
(***************************************************************************)
(* The body of the if statement is empty; the decrement follows it and is  *)
(* executed on every call.                                                 *)
(* Variant: the program counter advances on every call *)
cpu6502_step_advance(c) ==
  LET c1 == IF SizeGtZero(c.cycles_behind) THEN c ELSE c
  IN  [c1 EXCEPT !.cycles_behind = SizeDec(c1.cycles_behind),
                 !.pc = uint16(@ + 1)]

cpu6502_step(c) ==
  LET c1 == IF SizeGtZero(c.cycles_behind) THEN c ELSE c
  IN  [c1 EXCEPT !.cycles_behind = SizeDec(c1.cycles_behind)]

(* Both operations are declared static void: nothing is returned *)
ReturnValue == "void"

(***************************************************************************)
(* Initial contents of the structure.  The header has no constructor, so   *)
(* a struct cpu6502 holds whatever the driver left in it.                  *)
(***************************************************************************)
(* Bounds of the model *)
MaxSteps == 8

(* Reset-vector targets, opcodes placed at the target, and fill bytes *)
Targets == {32768, 4660}

Opcodes == {234, 24, 2, 108}

Fills == {0, 165}

(* The modelled part of ram[]: both ends of the stack page, the three      *)
(* vectors and the reset targets.  Neither operation reads or writes any   *)
(* other byte.                                                             *)
RamWindow ==
  {PAGE_SIZE, 2 * PAGE_SIZE - 1} \cup Targets
    \cup {NMI_VECTOR, NMI_VECTOR + 1, RESET_VECTOR, RESET_VECTOR + 1,
          IRQ_VECTOR, IRQ_VECTOR + 1}

RamImage(target, opcode, fill) ==
  [adr \in RamWindow |->
     IF adr = RESET_VECTOR THEN target % 256
     ELSE IF adr = RESET_VECTOR + 1 THEN target \div 256
     ELSE IF adr = target THEN opcode
     ELSE fill]

RamImages ==
  {RamImage(t, o, f) : t \in Targets, o \in Opcodes, f \in Fills}

Registers == {<<0, 0, 0>>, <<128, 1, 255>>}

CpuStates ==
  { [pc |-> pc, sp |-> sp, a |-> r[1], x |-> r[2], y |-> r[3],
     status |-> st, ram |-> ram, ram_size |-> rs, cycles_behind |-> cb,
     instruction_mode |-> im, data |-> 0] :
       pc \in {32768, 65535}, sp \in {0, 255}, r \in Registers,
       st \in {0, 36, 201, 255}, ram \in RamImages, rs \in {0, RAM_SIZE},
       cb \in {size_t(0), size_t(1), size_t(6), <<0, 0, 1, 0>>, SIZE_MAX},
       im \in {ADDR_MODE_ACCUMULATOR, ADDR_MODE_NONE} }

(* One row of the two tables *)
Decode(op) ==
  [opcode |-> op, mode |-> instruction_modes_6502[op],
   type |-> instruction_types_6502[op]]

(***************************************************************************)
(* Spec: reset and step calls on one structure                             *)
(***************************************************************************)
Init ==
  /\ cpu \in CpuStates
  /\ pre = cpu
  /\ call = "none"
  /\ ret = "none"
  /\ was_reset = FALSE
  /\ nsteps = 0
  /\ decoded = Decode(0)

(* The driver calls cpu6502_reset(&cpu) *)
Reset ==
  /\ cpu' = cpu6502_reset(cpu)
  /\ pre' = cpu
  /\ call' = "reset"
  /\ ret' = ReturnValue
  /\ was_reset' = TRUE
  /\ nsteps' = 0
  /\ UNCHANGED decoded

(* The driver calls cpu6502_step(&cpu); nsteps counts the step calls since *)
(* the last reset (or since the start) and is capped at MaxSteps           *)
Step ==
  /\ nsteps < MaxSteps
  /\ cpu' = cpu6502_step(cpu)
  /\ pre' = cpu
  /\ call' = "step"
  /\ ret' = ReturnValue
  /\ nsteps' = nsteps + 1
  /\ UNCHANGED <<was_reset, decoded>>

Next == Reset \/ Step

Spec == Init /\ [][Next]_vars

(***************************************************************************)
(* TableSpec: the opcode tables, one opcode byte at a time                 *)
(***************************************************************************)
ZeroCpu ==
  [pc |-> 0, sp |-> 0, a |-> 0, x |-> 0, y |-> 0, status |-> 0,
   ram |-> [adr \in RamWindow |-> 0], ram_size |-> 0,
   cycles_behind |-> size_t(0), instruction_mode |-> 0, data |-> 0]

TableInit ==
  /\ cpu = ZeroCpu
  /\ pre = cpu
  /\ call = "none"
  /\ ret = "none"
  /\ was_reset = FALSE
  /\ nsteps = 0
  /\ \E op \in Byte : decoded = Decode(op)

Lookup ==
  /\ \E op \in Byte : decoded' = Decode(op)
  /\ UNCHANGED <<cpu, pre, call, ret, was_reset, nsteps>>

TableNext == Lookup

TableSpec == TableInit /\ [][TableNext]_vars

(***************************************************************************)
(* Properties                                                              *)
(***************************************************************************)
(* Flags of the status byte of a structure *)
FlagOf(c, f) == (c.status \div (2 ^ f)) % 2

(* The eight branch instruction types *)
BranchTypes ==
  {INSTR_TYPE_BCC, INSTR_TYPE_BCS, INSTR_TYPE_BEQ, INSTR_TYPE_BMI,
   INSTR_TYPE_BNE, INSTR_TYPE_BPL, INSTR_TYPE_BVC, INSTR_TYPE_BVS}

(* Every instruction type the enum defines, the empty slot excluded *)
DefinedTypes ==
  {INSTR_TYPE_LDA, INSTR_TYPE_LDX, INSTR_TYPE_LDY, INSTR_TYPE_STA,
   INSTR_TYPE_STX, INSTR_TYPE_STY, INSTR_TYPE_TAX, INSTR_TYPE_TAY,
   INSTR_TYPE_TXA, INSTR_TYPE_TYA, INSTR_TYPE_TSX, INSTR_TYPE_TXS,
   INSTR_TYPE_PHA, INSTR_TYPE_PHP, INSTR_TYPE_PLA, INSTR_TYPE_PLP,
   INSTR_TYPE_AND, INSTR_TYPE_EOR, INSTR_TYPE_ORA, INSTR_TYPE_BIT,
   INSTR_TYPE_ADC, INSTR_TYPE_SBC, INSTR_TYPE_CMP, INSTR_TYPE_CPX,
   INSTR_TYPE_CPY, INSTR_TYPE_INC, INSTR_TYPE_INX, INSTR_TYPE_INY,
   INSTR_TYPE_DEC, INSTR_TYPE_DEX, INSTR_TYPE_DEY, INSTR_TYPE_ASL,
   INSTR_TYPE_LSR, INSTR_TYPE_ROL, INSTR_TYPE_ROR, INSTR_TYPE_JMP,
   INSTR_TYPE_JSR, INSTR_TYPE_RTS, INSTR_TYPE_BCC, INSTR_TYPE_BCS,
   INSTR_TYPE_BEQ, INSTR_TYPE_BMI, INSTR_TYPE_BNE, INSTR_TYPE_BPL,
   INSTR_TYPE_BVC, INSTR_TYPE_BVS, INSTR_TYPE_CLC, INSTR_TYPE_CLD,
   INSTR_TYPE_CLI, INSTR_TYPE_CLV, INSTR_TYPE_SEC, INSTR_TYPE_SED,
   INSTR_TYPE_SEI, INSTR_TYPE_BRK, INSTR_TYPE_NOP, INSTR_TYPE_RTI}

(* The size_t value one above v, v < SIZE_MAX: carry runs upwards from the *)
(* least significant limb                                                  *)
RECURSIVE Carry(_, _)
Carry(v, i) ==
  IF i = 0 THEN v
  ELSE IF v[i] < 65535 THEN [v EXCEPT ![i] = @ + 1]
  ELSE Carry([v EXCEPT ![i] = 0], i - 1)

(* C1: after cpu6502_reset the program counter is                          *)
(* ram[0xFFFC] + 256 * ram[0xFFFD], the interrupt-disable flag is 1, the   *)
(* decimal flag is 0 and the stack pointer is 0xFF, whatever the structure *)
(* and the memory held before.                                             *)
C1_ResetLoadsVector ==
  call = "reset" =>
    /\ cpu.pc = pre.ram[65532] + 256 * pre.ram[65533]
    /\ FlagOf(cpu, FLAG_I) = 1
    /\ FlagOf(cpu, FLAG_D) = 0
    /\ cpu.sp = 255

(* A reset through a vector holding 0x8000, from a structure whose pc, sp, *)
(* i and d all differed from the values reset gives them                   *)
C1_Witness ==
  /\ call = "reset"
  /\ pre.ram[65532] = 0 /\ pre.ram[65533] = 128
  /\ cpu.pc = 32768
  /\ pre.pc # 32768 /\ pre.sp # 255
  /\ FlagOf(pre, FLAG_I) = 0 /\ FlagOf(pre, FLAG_D) = 1

(* C2: a cpu6502_step call made with cycles_behind > 0 lowers              *)
(* cycles_behind by exactly one and changes no other field: pc, sp, a, x,  *)
(* y, status and every byte of ram keep their values.                      *)
C2_StepWithDebt ==
  (call = "step" /\ pre.cycles_behind # <<0, 0, 0, 0>>) =>
    /\ Carry(cpu.cycles_behind, 4) = pre.cycles_behind
    /\ cpu.pc = pre.pc /\ cpu.sp = pre.sp
    /\ cpu.a = pre.a /\ cpu.x = pre.x /\ cpu.y = pre.y
    /\ cpu.status = pre.status
    /\ cpu.ram = pre.ram

(* The third step after a reset: debt 4 becomes 3 *)
C2_Witness ==
  /\ was_reset /\ call = "step"
  /\ pre.cycles_behind = <<0, 0, 0, 4>>
  /\ cpu.cycles_behind = <<0, 0, 0, 3>>

(* C3: a cpu6502_step call made with cycles_behind = 0, as the seventh     *)
(* step after a reset is, executes the instruction at pc and leaves        *)
(* cycles_behind equal to the cost of that instruction, which for a 6502   *)
(* instruction is between 1 and 7 cycles.                                  *)
C3_StepAtZeroExecutes ==
  (was_reset /\ call = "step" /\ pre.cycles_behind = <<0, 0, 0, 0>>) =>
    \E cost \in 1..7 : cpu.cycles_behind = <<0, 0, 0, cost>>

(* C4: a cpu6502_step call made with cycles_behind = 0 on an opcode whose  *)
(* instruction type is the unassigned one reports InvalidOpcode to its     *)
(* caller.  Checked on the step that follows a reset and its six cycles.   *)
C4_InvalidOpcodeReported ==
  ( /\ was_reset /\ call = "step"
    /\ pre.cycles_behind = <<0, 0, 0, 0>>
    /\ pre.pc \in DOMAIN pre.ram
    /\ instruction_types_6502[pre.ram[pre.pc]] = INSTR_TYPE_NONE )
  => ret = "InvalidOpcode"

(* C5: once cpu6502_reset has been called, the unused status bit (bit 5)   *)
(* is 1 in every state, whatever the structure held before the reset.      *)
C5_UnusedBitSet ==
  was_reset => FlagOf(cpu, FLAG_U) = 1

(* C6: the unassigned instruction type is distinct from every defined      *)
(* type, and an opcode has the unassigned instruction type exactly when it *)
(* has the unassigned addressing mode.                                     *)
C6_UnassignedDistinct ==
  /\ INSTR_TYPE_NONE \notin DefinedTypes
  /\ (decoded.type = INSTR_TYPE_NONE) <=> (decoded.mode = ADDR_MODE_NONE)

(* C7: cpu6502_reset writes no byte of memory: the stack page and the      *)
(* three vectors hold after the reset what they held before.               *)
C7_ResetKeepsMemory ==
  call = "reset" => \A adr \in DOMAIN pre.ram : cpu.ram[adr] = pre.ram[adr]

(* A reset that moved the stack pointer and the program counter over a     *)
(* stack page holding non-zero bytes                                       *)
C7_Witness ==
  /\ call = "reset"
  /\ pre.sp = 0 /\ cpu.sp = 255 /\ cpu.pc # pre.pc
  /\ cpu.ram[256] = 165 /\ cpu.ram[511] = 165

(* C8: cpu6502_reset sets cycles_behind to 6 whatever it was, and each of  *)
(* the next six step calls lowers it by one, so that it is zero after the  *)
(* sixth and not before.                                                   *)
C8_ResetCostsSix ==
  (was_reset /\ nsteps <= 6) => cpu.cycles_behind = <<0, 0, 0, 6 - nsteps>>

(* Six steps after a reset the debt is zero *)
C8_Witness ==
  /\ was_reset /\ call = "step" /\ nsteps = 6
  /\ cpu.cycles_behind = <<0, 0, 0, 0>>

(* C9: an opcode has addressing mode Indirect only if its type is JMP, and *)
(* has addressing mode Relative exactly when its type is one of the eight  *)
(* branches.                                                               *)
C9_IndirectAndRelative ==
  /\ decoded.mode = ADDR_MODE_INDIRECT => decoded.type = INSTR_TYPE_JMP
  /\ (decoded.mode = ADDR_MODE_RELATIVE) <=> (decoded.type \in BranchTypes)

(* Opcode 0x6c, the indirect jump *)
C9_Witness ==
  /\ decoded.opcode = 108
  /\ decoded.mode = ADDR_MODE_INDIRECT
  /\ decoded.type = INSTR_TYPE_JMP

(* C10: after cpu6502_reset a, x and y are 0, the zero flag is 1 and the   *)
(* negative, overflow and carry flags are 0.                               *)
C10_ResetClearsRegisters ==
  call = "reset" =>
    /\ cpu.a = 0 /\ cpu.x = 0 /\ cpu.y = 0
    /\ FlagOf(cpu, FLAG_Z) = 1
    /\ FlagOf(cpu, FLAG_N) = 0
    /\ FlagOf(cpu, FLAG_V) = 0
    /\ FlagOf(cpu, FLAG_C) = 0

(* A reset of a structure with non-zero registers, z clear and n, v, c set *)
C10_Witness ==
  /\ call = "reset"
  /\ pre.a = 128 /\ pre.x = 1 /\ pre.y = 255
  /\ FlagOf(pre, FLAG_Z) = 0 /\ FlagOf(pre, FLAG_N) = 1
  /\ FlagOf(pre, FLAG_V) = 1 /\ FlagOf(pre, FLAG_C) = 1

(* C11: once cpu6502_reset has been called, cycles_behind stays between 0  *)
(* and 7 through every following step: no step takes the unsigned counter  *)
(* below zero and around to its maximum value.                             *)
C11_DebtBounded ==
  was_reset => \E n \in 0..7 : cpu.cycles_behind = <<0, 0, 0, n>>

(* C12: the Zero Page,Y addressing mode belongs only to opcodes of type    *)
(* LDX or STX; DEC at 0xd6 uses Zero Page,X.                               *)
C12_ZeroPageYOnlyLdxStx ==
  /\ decoded.mode = ADDR_MODE_ZERO_PAGE_Y =>
       decoded.type \in {INSTR_TYPE_LDX, INSTR_TYPE_STX}
  /\ decoded.opcode = 214 => decoded.mode = ADDR_MODE_ZERO_PAGE_X

====
